---- MODULE Spec2Model ----
(***************************************************************************)
(* Model of trlx/pipeline/offline_pipeline.py: middle_truncate,            *)
(* tokenize_dialogue, and the padded collation of DialogStore and          *)
(* DialogStreamStore.                                                       *)
(*                                                                         *)
(* A text is a sequence of words; the tokenizer maps each word to its      *)
(* token ids (TokenIds) and a text to the concatenation of its words'      *)
(* ids.  Token tuples are sequences of integers.  Python indices are       *)
(* 0-based and are kept 0-based in the model (PySlice does the slicing).   *)
(***************************************************************************)
EXTENDS Integers, Sequences, FiniteSets, TLC

VARIABLES pc, dialogue, tokenizer, max_length, ret, again, frame, store

vars == <<pc, dialogue, tokenizer, max_length, ret, again, frame, store>>

Null == [none |-> TRUE]

\* ------------------------------------------------------------------ bounds
MaxPhrases == 4
MaxPhraseLen == 2
MaxLength == 6
MaxPromptLen == 4
MaxOutputLen == 2

\* ------------------------------------------------------- python primitives
Min(a, b) == IF a < b THEN a ELSE b
Max(a, b) == IF a > b THEN a ELSE b

\* s[::-1]
Reverse(s) == [i \in 1..Len(s) |-> s[Len(s) + 1 - i]]

\* a slice bound as Python normalises it: negative counts from the end,
\* then clamped into 0..len
PyBound(n, i) == IF i < 0 THEN Max(n + i, 0) ELSE Min(i, n)

\* s[lo:hi] with 0-based, possibly negative, possibly out-of-range bounds
PySlice(s, lo, hi) ==
    LET a == PyBound(Len(s), lo)
        b == PyBound(Len(s), hi)
    IN  IF a >= b THEN <<>> ELSE SubSeq(s, a + 1, b)

\* s[lo:]
PyFrom(s, lo) == IF PyBound(Len(s), lo) >= Len(s) THEN <<>>
                 ELSE SubSeq(s, PyBound(Len(s), lo) + 1, Len(s))

\* s[:hi]
PyUpTo(s, hi) == PySlice(s, 0, hi)

\* 0-based index of the first x in s, or -1
FirstIndex(s, x) ==
    IF \E i \in 1..Len(s) : s[i] = x
    THEN (CHOOSE i \in 1..Len(s) : s[i] = x /\ \A j \in 1..(i - 1) : s[j] # x) - 1
    ELSE -1

\* sum(s[:n])
RECURSIVE SumFirst(_, _)
SumFirst(s, n) == IF n = 0 THEN 0 ELSE SumFirst(s, n - 1) + s[n]

SumSeq(s) == SumFirst(s, Len(s))

\* the concatenation of the first n sequences of ss
RECURSIVE FlattenFirst(_, _)
FlattenFirst(ss, n) == IF n = 0 THEN <<>> ELSE FlattenFirst(ss, n - 1) \o ss[n]

Flatten(ss) == FlattenFirst(ss, Len(ss))

\* line 159 on the first n messages: [t for t in truncated if len(t.tokens) > 0]
RECURSIVE NonEmptyFirst(_, _)
NonEmptyFirst(ms, n) ==
    IF n = 0 THEN <<>>
    ELSE IF Len(ms[n].tokens) > 0 THEN NonEmptyFirst(ms, n - 1) \o <<ms[n]>>
         ELSE NonEmptyFirst(ms, n - 1)

NonEmptyOnly(ms) == NonEmptyFirst(ms, Len(ms))

\* --------------------------------------------------------------- tokenizer
BosWord == "<s>"
EosWord == "</s>"
StartWord == "["
EndWord == "]"
SepWord == "|"

\* the tokenizer's vocabulary: word -> token ids
TokenIds(w) ==
    CASE w = BosWord -> <<0>>
      [] w = "a" -> <<1>>
      [] w = "b" -> <<2>>
      [] w = StartWord -> <<3>>
      [] w = EndWord -> <<4>>
      [] w = "hello" -> <<5, 6>>
      [] w = "world" -> <<7, 8>>
      [] w = EosWord -> <<9>>
      [] w = SepWord -> <<10>>
      [] w = "c" -> <<11>>

\* tokenizer(text, add_special_tokens=False).input_ids
Encode(text) == Flatten([i \in 1..Len(text) |-> TokenIds(text[i])])

\* text.endswith(tokenizer.eos_token)
EndsWith(text, w) == Len(text) > 0 /\ text[Len(text)] = w

DialogMessage(is_output, tokens) == [is_output |-> is_output, tokens |-> tokens]
PromptMessage(tokens, mask) == [tokens |-> tokens, mask |-> mask]
IsDialogMessage(m) == "is_output" \in DOMAIN m
IsPromptMessage(m) == "mask" \in DOMAIN m

TotalTokens(ms) == SumSeq([i \in 1..Len(ms) |-> Len(ms[i].tokens)])
AllTokens(ms) == Flatten([i \in 1..Len(ms) |-> ms[i].tokens])
\* the role of every token of a message list, in order
AllRoles(ms) == Flatten([i \in 1..Len(ms) |-> [j \in 1..Len(ms[i].tokens) |-> ms[i].is_output]])

\* ---------------------------------------------------------- middle_truncate
\* lines 57-68: the message list's type, its arity check, the two token counts
MessageCounts(tokenized) ==
    IF IsDialogMessage(tokenized[1])
    THEN IF Len(tokenized) # 2
         THEN [err |-> "AssertionError", prompt_token_num |-> 0, output_token_num |-> 0]
         ELSE [err |-> "none", prompt_token_num |-> Len(tokenized[1].tokens),
               output_token_num |-> Len(tokenized[2].tokens)]
    ELSE IF IsPromptMessage(tokenized[1])
    THEN IF Len(tokenized) # 1
         THEN [err |-> "AssertionError", prompt_token_num |-> 0, output_token_num |-> 0]
         ELSE [err |-> "none", prompt_token_num |-> Len(tokenized[1].tokens),
               output_token_num |-> 0]
    ELSE [err |-> "RuntimeError: wrong message type", prompt_token_num |-> 0,
          output_token_num |-> 0]

\* lines 72-79: first occurrence of each marker, -1 when absent
MarkerScan(tokens, start_char_token_id, end_char_token_id) ==
    [start |-> FirstIndex(tokens, start_char_token_id),
     end |-> FirstIndex(tokens, end_char_token_id)]

\* lines 80-83: the fallback to the whole prompt when a marker is missing
MarkerIdx(tokens, start_char_token_id, end_char_token_id) ==
    LET sc == MarkerScan(tokens, start_char_token_id, end_char_token_id)
    IN  IF sc.start = -1 \/ sc.end = -1
        THEN [start |-> 0, end |-> Len(tokens) - 1]
        ELSE sc

\* lines 84, 86: tokens[start_char_idx+1:end_char_idx]
MiddlePart(seq, idx) == PySlice(seq, idx.start + 1, idx.end)

\* mutant of MiddleMaxLen: the middle part is not credited back to the budget
MiddleMaxLenWhole(maxlen, output_token_num, prompt_token_num, middle_token_part) ==
    maxlen - output_token_num - prompt_token_num

\* line 87
MiddleMaxLen(maxlen, output_token_num, prompt_token_num, middle_token_part) ==
    maxlen - output_token_num - (prompt_token_num - Len(middle_token_part))

\* lines 92-95 and 107-110: the reversal for "middle-right"
SideFlip(part, truncation_side) ==
    IF truncation_side = "middle-right" THEN Reverse(part) ELSE part

\* mutant of LoopBody: a missing separator leaves the middle as it is
LoopBodyKeepOnMiss(part, sep_char_token_id) ==
    LET sep_char_idx == FirstIndex(part.tokens, sep_char_token_id)
    IN  IF sep_char_idx # -1
        THEN [tokens |-> PyFrom(part.tokens, sep_char_idx + 1),
              mask |-> PyFrom(part.mask, sep_char_idx + 1),
              broke |-> FALSE]
        ELSE [tokens |-> part.tokens, mask |-> part.mask, broke |-> TRUE]

\* lines 97-106: one iteration of the trimming loop
LoopBody(part, sep_char_token_id) ==
    LET sep_char_idx == FirstIndex(part.tokens, sep_char_token_id)
    IN  IF sep_char_idx # -1
        THEN [tokens |-> PyFrom(part.tokens, sep_char_idx + 1),
              mask |-> PyFrom(part.mask, sep_char_idx + 1),
              broke |-> FALSE]
        ELSE [tokens |-> <<>>, mask |-> <<>>, broke |-> TRUE]

\* line 96: the loop's condition
LoopRuns(part, middle_max_len) == ~part.broke /\ Len(part.tokens) > middle_max_len

\* lines 96-106: the whole loop
RECURSIVE TrimLoop(_, _, _)
TrimLoop(part, middle_max_len, sep_char_token_id) ==
    IF LoopRuns(part, middle_max_len)
    THEN TrimLoop(LoopBody(part, sep_char_token_id), middle_max_len, sep_char_token_id)
    ELSE part

\* mutant of Reassemble: the suffix starts after the end marker
ReassembleDropEnd(seq, idx, middle) ==
    PyUpTo(seq, idx.start + 1) \o middle \o PyFrom(seq, idx.end + 1)

\* lines 111, 113: prefix + trimmed middle + suffix
Reassemble(seq, idx, middle) == PyUpTo(seq, idx.start + 1) \o middle \o PyFrom(seq, idx.end)

\* the mask of a message, () for a DialogMessage, which has none
MaskOf(m) == IF IsPromptMessage(m) THEN m.mask ELSE <<>>

\* lines 111-113: the prompt message with its tokens (and mask) replaced
Rebuilt(m, idx, part, truncation_side) ==
    IF IsPromptMessage(m)
    THEN PromptMessage(Reassemble(m.tokens, idx, SideFlip(part.tokens, truncation_side)),
                       Reassemble(m.mask, idx, SideFlip(part.mask, truncation_side)))
    ELSE DialogMessage(m.is_output,
                       Reassemble(m.tokens, idx, SideFlip(part.tokens, truncation_side)))

\* lines 84-95: the middle part as the loop first sees it
InitialPart(m, idx, truncation_side) ==
    [tokens |-> SideFlip(MiddlePart(m.tokens, idx), truncation_side),
     mask |-> SideFlip(MiddlePart(MaskOf(m), idx), truncation_side),
     broke |-> FALSE]

\* lines 55-113: middle_truncate; the result is the message list as the call
\* leaves it, or the exception it raises
MiddleTruncate(tokenized, maxlen, truncation_side, start_char_token_id, end_char_token_id, sep_char_token_id) ==
    LET n == MessageCounts(tokenized)
        idx == MarkerIdx(tokenized[1].tokens, start_char_token_id, end_char_token_id)
        middle_max_len == MiddleMaxLen(maxlen, n.output_token_num, n.prompt_token_num,
                                       MiddlePart(tokenized[1].tokens, idx))
        part == TrimLoop(InitialPart(tokenized[1], idx, truncation_side),
                         middle_max_len, sep_char_token_id)
    IN  IF n.err # "none" THEN [err |-> n.err, tokenized |-> tokenized]
        ELSE IF ~(n.prompt_token_num + n.output_token_num > maxlen)
        THEN [err |-> "none", tokenized |-> tokenized]
        ELSE IF middle_max_len < 0
        THEN [err |-> "RuntimeError: please shorten", tokenized |-> tokenized]
        ELSE [err |-> "none",
              tokenized |-> [i \in 1..Len(tokenized) |->
                                IF i = 1 THEN Rebuilt(tokenized[1], idx, part, truncation_side)
                                ELSE tokenized[i]]]

\* -------------------------------------------------------- tokenize_dialogue
NoToken == "None"

StartsWithMiddle(truncation_side) == truncation_side \in {"middle-left", "middle-right"}

\* mutant of Phrases: the eos text is never appended
PhrasesNoEos(dlg, tk) ==
    LET bos_token == IF tk.bos_token # NoToken THEN tk.bos_token ELSE tk.eos_token
        listed == IF dlg.kind = "str" THEN << <<bos_token>>, dlg.value >> ELSE dlg.value
        n == Len(listed)
    IN  IF dlg.kind # "str" /\ n % 2 # 0
        THEN [err |-> "ValueError", phrases |-> <<>>]
        ELSE IF n = 0 THEN [err |-> "IndexError", phrases |-> <<>>]
        ELSE [err |-> "none", phrases |-> listed]

\* lines 121-130: the list of phrases, with the eos text appended to the
\* last one when it does not end with it
Phrases(dlg, tk) ==
    LET bos_token == IF tk.bos_token # NoToken THEN tk.bos_token ELSE tk.eos_token
        listed == IF dlg.kind = "str" THEN << <<bos_token>>, dlg.value >> ELSE dlg.value
        n == Len(listed)
    IN  IF dlg.kind # "str" /\ n % 2 # 0
        THEN [err |-> "ValueError", phrases |-> <<>>]
        ELSE IF n = 0 THEN [err |-> "IndexError", phrases |-> <<>>]
        ELSE IF ~EndsWith(listed[n], tk.eos_token)
        THEN [err |-> "none",
              phrases |-> [i \in 1..n |-> IF i = n THEN listed[n] \o <<tk.eos_token>>
                                           ELSE listed[i]]]
        ELSE [err |-> "none", phrases |-> listed]

\* lines 132-135: Python index i is the model's i - 1
Tokenized(phrases) ==
    [i \in 1..Len(phrases) |-> DialogMessage((i - 1) % 2 = 1, Encode(phrases[i]))]

\* mutant of FlipMessages: the message order is reversed, the tokens are not
FlipOrderOnly(ms) ==
    [i \in 1..Len(ms) |->
        DialogMessage(ms[Len(ms) + 1 - i].is_output, ms[Len(ms) + 1 - i].tokens)]

\* lines 139 and 156: message order and token order both reversed
FlipMessages(ms) ==
    [i \in 1..Len(ms) |->
        DialogMessage(ms[Len(ms) + 1 - i].is_output, Reverse(ms[Len(ms) + 1 - i].tokens))]

\* lines 147-152: each message keeps max(max_length - tokens before it, 0)
CumTruncate(tokenized, maxlen) ==
    [i \in 1..Len(tokenized) |->
        LET cl == SumSeq([j \in 1..(i - 1) |-> Len(tokenized[j].tokens)])
        IN  DialogMessage(tokenized[i].is_output,
                          PyUpTo(tokenized[i].tokens, Max(maxlen - cl, 0)))]

\* mutant of Shave: no token is taken off
ShaveNothing(out, truncation_side) == out

\* lines 163-166: the one-token shave
Shave(out, truncation_side) ==
    IF truncation_side = "left"
    THEN [i \in 1..Len(out) |->
            IF i = 1 THEN DialogMessage(out[1].is_output, PyFrom(out[1].tokens, 1))
            ELSE out[i]]
    ELSE [i \in 1..Len(out) |->
            IF i = Len(out)
            THEN DialogMessage(out[Len(out)].is_output, PyUpTo(out[Len(out)].tokens, -1))
            ELSE out[i]]

\* mutant of BoundaryRepair: no beginning-of-sequence message is prepended
BoundaryRepairNoBos(out, truncation_side, maxlen, bos_token_id) ==
    IF Len(out) = 0 THEN [err |-> "IndexError", out |-> out]
    ELSE [err |-> "none", out |-> out]

\* lines 161-169: out[0] of an empty list raises IndexError
BoundaryRepair(out, truncation_side, maxlen, bos_token_id) ==
    IF Len(out) = 0 THEN [err |-> "IndexError", out |-> out]
    ELSE IF out[1].is_output
    THEN [err |-> "none",
          out |-> <<DialogMessage(FALSE, <<bos_token_id>>)>> \o
                  (IF TotalTokens(out) = maxlen THEN Shave(out, truncation_side) ELSE out)]
    ELSE [err |-> "none", out |-> out]

\* lines 141-152: middle truncation or the cumulative budget
Truncate(tokenized, tk, maxlen) ==
    IF StartsWithMiddle(tk.truncation_side)
    THEN MiddleTruncate(tokenized, maxlen, tk.truncation_side, tk.start_char_token_id,
                        tk.end_char_token_id, tk.sep_char_token_id)
    ELSE [err |-> "none", tokenized |-> CumTruncate(tokenized, maxlen)]

\* lines 137-156: flip, truncate, flip back
Truncated(tokenized, tk, maxlen) ==
    LET flipped == IF tk.truncation_side = "left" THEN FlipMessages(tokenized) ELSE tokenized
        t == Truncate(flipped, tk, maxlen)
    IN  [err |-> t.err,
         truncated |-> IF tk.truncation_side = "left" THEN FlipMessages(t.tokenized)
                       ELSE t.tokenized]

\* lines 137-169: everything tokenize_dialogue does after tokenizing
TruncateRepair(tokenized, tk, maxlen) ==
    LET t == Truncated(tokenized, tk, maxlen)
        r == BoundaryRepair(NonEmptyOnly(t.truncated), tk.truncation_side, maxlen,
                            tk.bos_token_id)
    IN  IF t.err # "none"
        THEN [err |-> t.err, tokenized |-> tokenized, truncated |-> <<>>, out |-> <<>>]
        ELSE [err |-> r.err, tokenized |-> tokenized, truncated |-> t.truncated,
              out |-> r.out]

\* lines 115-169
TokenizeDialogue(dlg, tk, maxlen) ==
    LET p == Phrases(dlg, tk)
    IN  IF p.err # "none"
        THEN [err |-> p.err, tokenized |-> <<>>, truncated |-> <<>>, out |-> <<>>]
        ELSE TruncateRepair(Tokenized(p.phrases), tk, maxlen)

\* ------------------------------------------------------------------ inputs
\* DialogStreamStore.__init__, lines 206-215, sets the three marker ids from
\* the tokenizer's own encoding of the marker texts
Tokenizer(truncation_side, padding_side, pad_word) ==
    [truncation_side |-> truncation_side,
     padding_side |-> padding_side,
     bos_token |-> BosWord,
     eos_token |-> EosWord,
     bos_token_id |-> Encode(<<BosWord>>)[1],
     pad_token_id |-> Encode(<<pad_word>>)[1],
     start_char_token_id |-> Encode(<<StartWord>>)[Len(Encode(<<StartWord>>))],
     end_char_token_id |-> Encode(<<EndWord>>)[Len(Encode(<<EndWord>>))],
     sep_char_token_id |-> Encode(<<SepWord>>)[Len(Encode(<<SepWord>>))]]

Sides == {"left", "right", "middle-left", "middle-right"}

SeqsUpTo(S, n) == UNION {[1..k -> S] : k \in 0..n}

\* the j-th word of the i-th phrase of a plain dialogue: neighbouring words
\* differ, within a phrase and across a phrase boundary
PlainWord(i, j) == <<"a", "b", "c">>[((i + j) % 3) + 1]

PlainText(i, len) == [j \in 1..len |-> PlainWord(i, j)]

\* dialogues of 1..MaxPhrases phrases of 0..MaxPhraseLen words each, the last
\* phrase with or without the eos text already at its end
PlainDialogues ==
    UNION {
        UNION {
            { [kind |-> "list", value |-> [i \in 1..n |-> PlainText(i, lens[i])]],
              [kind |-> "list",
               value |-> [i \in 1..n |-> IF i = n THEN PlainText(i, lens[i]) \o <<EosWord>>
                                         ELSE PlainText(i, lens[i])]] }
            : lens \in [1..n -> 0..MaxPhraseLen] }
        : n \in 1..MaxPhrases }

\* a single string
StrDialogues == {[kind |-> "str", value |-> PlainText(1, len)] : len \in 0..MaxPhraseLen}

\* one prompt carrying markers and separators, and one output
MarkedDialogues ==
    {[kind |-> "list", value |-> <<p, PlainText(2, k)>>] :
        p \in SeqsUpTo({"a", StartWord, EndWord, SepWord}, MaxPromptLen),
        k \in 0..MaxOutputLen}

\* the dialogue ["hello", "world"]
HelloWorld == [kind |-> "list", value |-> << <<"hello">>, <<"world">> >>]

DialoguesFor(truncation_side) ==
    IF StartsWithMiddle(truncation_side)
    THEN MarkedDialogues \cup StrDialogues
         \cup {d \in PlainDialogues : \A i \in 1..Len(d.value) : Len(d.value[i]) = 1}
    ELSE PlainDialogues \cup StrDialogues

\* ----------------------------------------------- tokenize_dialogue, as run
Init ==
    /\ pc = "init"
    /\ \E side \in Sides :
          /\ tokenizer = Tokenizer(side, "right", BosWord)
          /\ \/ dialogue \in DialoguesFor(side) /\ max_length \in 0..MaxLength
             \/ dialogue = HelloWorld /\ max_length = 10
    /\ ret = Null
    /\ again = Null
    /\ frame = Null
    /\ store = Null

\* tokenize_dialogue(dialogue, tokenizer, max_length)
CallTokenizeDialogue ==
    /\ pc = "init"
    /\ ret' = TokenizeDialogue(dialogue, tokenizer, max_length)
    /\ pc' = IF ret'.err = "none" THEN "returned" ELSE "raised"
    /\ UNCHANGED <<dialogue, tokenizer, max_length, again, frame, store>>

\* lines 137-169 run once more on the messages just returned
CallAgain ==
    /\ pc = "returned"
    /\ again' = TruncateRepair(ret.out, tokenizer, max_length)
    /\ pc' = "rerun"
    /\ UNCHANGED <<dialogue, tokenizer, max_length, ret, frame, store>>

Next == CallTokenizeDialogue \/ CallAgain

Spec == Init /\ [][Next]_vars

\* ------------------------------------------ middle_truncate, step by step
\* the messages middle_truncate is called on: a prompt and an output
\* (tokenize_dialogue, line 142) or one PromptMessage whose mask is the
\* tokenizer's attention mask, all ones (PromptPipeline, lines 279-282)
MarkedPrompts == {Encode(p) : p \in SeqsUpTo({"a", StartWord, EndWord, SepWord}, MaxPromptLen)}

AllOnes(tokens) == [i \in 1..Len(tokens) |-> TRUE]

MiddleInputs ==
    {<<DialogMessage(FALSE, p), DialogMessage(TRUE, Encode(PlainText(2, k)))>> :
        p \in MarkedPrompts, k \in 0..MaxOutputLen}
    \cup {<<PromptMessage(p, AllOnes(p))>> : p \in MarkedPrompts}

\* a prompt of 100 tokens whose first token is the start marker and whose
\* last token is the end marker, with a separator every gap-th token of the
\* 98 between them (gap = 0: no separator), and an output of 50 tokens
SpanningPrompt(gap) ==
    [i \in 1..100 |->
        IF i = 1 THEN Encode(<<StartWord>>)[1]
        ELSE IF i = 100 THEN Encode(<<EndWord>>)[1]
        ELSE IF gap > 0 /\ i % gap = 0 THEN Encode(<<SepWord>>)[1]
        ELSE Encode(<<"a">>)[1]]

SpanningInputs ==
    {<<DialogMessage(FALSE, SpanningPrompt(gap)),
       DialogMessage(TRUE, [i \in 1..50 |-> IF i = 50 THEN Encode(<<EosWord>>)[1]
                                            ELSE Encode(<<"b">>)[1]])>> :
        gap \in {0, 7, 40}}

Frame(tokenized, maxlen, truncation_side, start_id, end_id, sep_id) ==
    [arg |-> tokenized,
     tokenized |-> tokenized,
     max_length |-> maxlen,
     truncation_side |-> truncation_side,
     start_char_token_id |-> start_id,
     end_char_token_id |-> end_id,
     sep_char_token_id |-> sep_id,
     idx |-> [start |-> -1, end |-> -1],
     part |-> [tokens |-> <<>>, mask |-> <<>>, broke |-> FALSE],
     middle_max_len |-> 0,
     iterations |-> 0,
     err |-> "none"]

InitMiddle ==
    /\ pc = "mt_call"
    /\ \E side \in {"middle-left", "middle-right"} :
          \/ \E msgs \in MiddleInputs, maxlen \in 0..MaxLength,
                end \in {Encode(<<EndWord>>)[1], Encode(<<StartWord>>)[1]} :
                frame = Frame(msgs, maxlen, side, Encode(<<StartWord>>)[1], end,
                              Encode(<<SepWord>>)[1])
          \/ \E msgs \in SpanningInputs :
                frame = Frame(msgs, 100, side, Encode(<<StartWord>>)[1],
                              Encode(<<EndWord>>)[1], Encode(<<SepWord>>)[1])
    /\ dialogue = Null
    /\ tokenizer = Null
    /\ max_length = Null
    /\ ret = Null
    /\ again = Null
    /\ store = Null

\* lines 57-95: up to the first test of the loop's condition
MTEnter ==
    /\ pc = "mt_call"
    /\ LET n == MessageCounts(frame.tokenized)
           idx == MarkerIdx(frame.tokenized[1].tokens, frame.start_char_token_id,
                            frame.end_char_token_id)
           middle_max_len == MiddleMaxLen(frame.max_length, n.output_token_num,
                                          n.prompt_token_num,
                                          MiddlePart(frame.tokenized[1].tokens, idx))
       IN  IF n.err # "none"
           THEN /\ pc' = "mt_raised"
                /\ frame' = [frame EXCEPT !.err = n.err]
           ELSE IF ~(n.prompt_token_num + n.output_token_num > frame.max_length)
           THEN /\ pc' = "mt_done"
                /\ frame' = frame
           ELSE IF middle_max_len < 0
           THEN /\ pc' = "mt_raised"
                /\ frame' = [frame EXCEPT !.err = "RuntimeError: please shorten",
                                          !.idx = idx,
                                          !.middle_max_len = middle_max_len]
           ELSE /\ pc' = "mt_loop"
                /\ frame' = [frame EXCEPT !.idx = idx,
                                          !.middle_max_len = middle_max_len,
                                          !.part = InitialPart(frame.tokenized[1], idx,
                                                               frame.truncation_side)]
    /\ UNCHANGED <<dialogue, tokenizer, max_length, ret, again, store>>

\* lines 96-106: one iteration of the while loop
MTLoopIter ==
    /\ pc = "mt_loop"
    /\ LoopRuns(frame.part, frame.middle_max_len)
    /\ frame' = [frame EXCEPT !.part = LoopBody(frame.part, frame.sep_char_token_id),
                              !.iterations = frame.iterations + 1]
    /\ pc' = "mt_loop"
    /\ UNCHANGED <<dialogue, tokenizer, max_length, ret, again, store>>

\* lines 107-113: the loop is left, the prompt is put together again
MTFinish ==
    /\ pc = "mt_loop"
    /\ ~LoopRuns(frame.part, frame.middle_max_len)
    /\ frame' = [frame EXCEPT !.tokenized =
                    <<Rebuilt(frame.tokenized[1], frame.idx, frame.part,
                              frame.truncation_side)>> \o PyFrom(frame.tokenized, 1)]
    /\ pc' = "mt_done"
    /\ UNCHANGED <<dialogue, tokenizer, max_length, ret, again, store>>

NextMiddle == MTEnter \/ MTLoopIter \/ MTFinish

SpecMiddle == InitMiddle /\ [][NextMiddle]_vars

\* ------------------------------------------- DialogStore, DialogStreamStore
\* lines 178, 222: the ignore index of CrossEntropyLoss
IgnoreIndex == -100

\* lines 176-184 and 220-224: one example of the store
Example(dialog) ==
    [input_ids |-> AllTokens(dialog),
     attention_mask |-> [i \in 1..TotalTokens(dialog) |-> 1],
     labels |-> Flatten([i \in 1..Len(dialog) |->
                    [j \in 1..Len(dialog[i].tokens) |->
                        IF dialog[i].is_output THEN dialog[i].tokens[j] ELSE IgnoreIndex]])]

\* one row padded with value v up to length n on the tokenizer's padding side
PadRow(row, n, v, padding_side) ==
    IF padding_side = "left"
    THEN [i \in 1..(n - Len(row)) |-> v] \o row
    ELSE row \o [i \in 1..(n - Len(row)) |-> v]

Longest(rows) ==
    IF Len(rows) = 0 THEN 0
    ELSE CHOOSE n \in {Len(rows[i]) : i \in 1..Len(rows)} :
            \A i \in 1..Len(rows) : Len(rows[i]) <= n

\* lines 187, 228: DataCollatorWithPadding(tokenizer) pads "input_ids" with
\* the tokenizer's pad id and "attention_mask" with 0, up to the longest row
HfCollate(input_ids, attention_mask, tk) ==
    [input_ids |-> [i \in 1..Len(input_ids) |->
                      PadRow(input_ids[i], Longest(input_ids), tk.pad_token_id,
                             tk.padding_side)],
     attention_mask |-> [i \in 1..Len(attention_mask) |->
                           PadRow(attention_mask[i], Longest(input_ids), 0,
                                  tk.padding_side)]]

\* lines 189-195 and 230-236: collate_fn; the labels go through the same
\* collator under the key "input_ids"
CollateFn(elems, tk) ==
    LET batch == HfCollate([i \in 1..Len(elems) |-> elems[i].input_ids],
                           [i \in 1..Len(elems) |-> elems[i].attention_mask], tk)
        labels == HfCollate([i \in 1..Len(elems) |-> elems[i].labels],
                            [i \in 1..Len(elems) |-> [j \in 1..Len(elems[i].labels) |-> 1]],
                            tk).input_ids
    IN  [input_ids |-> batch.input_ids,
         attention_mask |-> batch.attention_mask,
         labels |-> labels]

\* the samples a store is built on: a prompt and an output of up to
\* MaxPhraseLen words each
Samples ==
    {[kind |-> "list", value |-> <<PlainText(1, k1), PlainText(2, k2)>>] :
        k1 \in 0..MaxPhraseLen, k2 \in 0..MaxPhraseLen}

InitStore ==
    /\ pc = "st_new"
    /\ \E kind \in {"DialogStore", "DialogStreamStore"},
          padding_side \in {"left", "right"},
          pad_word \in {BosWord, EosWord},
          data \in [1..2 -> Samples],
          batch_size \in 1..2 :
          /\ tokenizer = Tokenizer("right", padding_side, pad_word)
          /\ store = [kind |-> kind, data |-> data, batch_size |-> batch_size,
                      history |-> <<>>, served |-> 0, elems |-> <<>>, batch |-> Null]
    /\ max_length = MaxLength
    /\ dialogue = Null
    /\ ret = Null
    /\ again = Null
    /\ frame = Null

\* lines 173-184: DialogStore(dialogs, tokenizer), the dialogs being the
\* samples as tokenize_dialogue returns them
DialogStoreInit ==
    /\ pc = "st_new"
    /\ store.kind = "DialogStore"
    /\ store' = [store EXCEPT !.history =
                    [i \in 1..Len(store.data) |->
                        Example(TokenizeDialogue(store.data[i], tokenizer, max_length).out)]]
    /\ pc' = "st_ready"
    /\ UNCHANGED <<dialogue, tokenizer, max_length, ret, again, frame>>

\* lines 201-215: DialogStreamStore(dialogs_iter, data_size, tokenizer,
\* seq_length); the truncation side is not a middle one, nothing is set
DialogStreamStoreInit ==
    /\ pc = "st_new"
    /\ store.kind = "DialogStreamStore"
    /\ ~StartsWithMiddle(tokenizer.truncation_side)
    /\ pc' = "st_ready"
    /\ UNCHANGED <<dialogue, tokenizer, max_length, ret, again, frame, store>>

\* lines 217-225: DialogStreamStore.__getitem__(index), 0-based
StreamGetItem(index) ==
    Example(TokenizeDialogue(store.data[index + 1], tokenizer, max_length).out)

\* BaseRolloutStore.__getitem__(index): the stored example
StoreGetItem(index) == store.history[index + 1]

\* lines 186-197 and 227-238: the loader's next batch, shuffle = False: the
\* next batch_size examples in order, collated
LoaderNextBatch ==
    /\ pc = "st_ready"
    /\ store.served < Len(store.data)
    /\ LET last == Min(store.served + store.batch_size, Len(store.data))
           elems == [i \in 1..(last - store.served) |->
                        IF store.kind = "DialogStore"
                        THEN StoreGetItem(store.served + i - 1)
                        ELSE StreamGetItem(store.served + i - 1)]
       IN  store' = [store EXCEPT !.served = last,
                                  !.elems = elems,
                                  !.batch = CollateFn(elems, tokenizer)]
    /\ UNCHANGED <<pc, dialogue, tokenizer, max_length, ret, again, frame>>

NextStore == DialogStoreInit \/ DialogStreamStoreInit \/ LoaderNextBatch

SpecStore == InitStore /\ [][NextStore]_vars

\* ================================================================= claims
\* ----------------------------------------------- under Spec (tokenize_dialogue)
ShortenError == "RuntimeError: please shorten"

\* the dialogue is one tokenize_dialogue accepts: a string, or an even number
\* of phrases, and one prompt with one output for middle truncation (line 59)
ValidDialogue ==
    \/ dialogue.kind = "str"
    \/ /\ Len(dialogue.value) > 0
       /\ Len(dialogue.value) % 2 = 0
       /\ StartsWithMiddle(tokenizer.truncation_side) => Len(dialogue.value) = 2

\* the messages that survive truncation (line 159), before boundary repair
Surviving == NonEmptyOnly(ret.truncated)

BosMessage == DialogMessage(FALSE, <<tokenizer.bos_token_id>>)

NoEmptyMessage(ms) == \A i \in 1..Len(ms) : Len(ms[i].tokens) > 0

\* C1: whenever tokenize_dialogue returns, with max_length >= 1 and any
\* truncation side, the token counts of the returned messages, a prepended
\* beginning-of-sequence message included, sum to at most max_length.
C1_TotalWithinMaxLength ==
    pc \in {"returned", "rerun"} /\ max_length >= 1 => TotalTokens(ret.out) <= max_length

\* C1 witness: a left-truncated dialogue whose first surviving message is an
\* output, so that a token was shaved and the bos message prepended, and the
\* result fills max_length exactly
C1_Witness ==
    /\ pc = "returned"
    /\ tokenizer.truncation_side = "left"
    /\ max_length >= 2
    /\ TotalTokens(ret.tokenized) > max_length
    /\ Surviving[1].is_output
    /\ ret.out[1] = BosMessage
    /\ TotalTokens(ret.out) = max_length

\* C2 as stated: for a valid dialogue and any max_length >= 0 the call (when
\* it does not raise the middle-truncation shorten error) returns a non-empty
\* list whose first message is not an output; it never fails because
\* truncation left no message.
C2_Original ==
    pc # "init" /\ ValidDialogue /\ max_length >= 0 /\ ret.err # ShortenError
        => ret.err = "none" /\ Len(ret.out) > 0 /\ ~ret.out[1].is_output

\* C2, amended to max_length >= 1: the call returns a non-empty list whose
\* first message is not an output, the bos message being prepended exactly
\* when the first surviving message is an output.
C2_FirstMessageIsPrompt ==
    pc # "init" /\ ValidDialogue /\ max_length >= 1 /\ ret.err # ShortenError
        => /\ ret.err = "none"
           /\ Len(ret.out) > 0
           /\ ~ret.out[1].is_output
           /\ Len(Surviving) > 0
           /\ IF Surviving[1].is_output
              THEN /\ Len(ret.out) = Len(Surviving) + 1
                   /\ ret.out[1] = BosMessage
                   /\ \A i \in 1..Len(Surviving) :
                         ret.out[i + 1].is_output = Surviving[i].is_output
              ELSE ret.out = Surviving

\* C2 witness: truncation from the left removed the first prompt, the first
\* surviving message is an output and the bos message stands before it
C2_Witness ==
    /\ pc = "returned"
    /\ ValidDialogue
    /\ max_length >= 1
    /\ Len(Surviving) < Len(ret.tokenized)
    /\ Surviving[1].is_output
    /\ Len(ret.out) = Len(Surviving) + 1
    /\ ret.out[1] = BosMessage

\* C5: left truncation (reverse, cumulative right budget, reverse back) keeps
\* exactly the last min(total, max_length) tokens of the concatenated
\* dialogue, each with its role; right truncation keeps exactly the first
\* min(total, max_length).
C5_LeftMirrorsRight ==
    pc = "returned" /\ tokenizer.truncation_side \in {"left", "right"}
        => LET all == AllTokens(ret.tokenized)
               roles == AllRoles(ret.tokenized)
               k == Min(Len(all), max_length)
           IN  IF tokenizer.truncation_side = "left"
               THEN /\ AllTokens(Surviving) = SubSeq(all, Len(all) - k + 1, Len(all))
                    /\ AllRoles(Surviving) = SubSeq(roles, Len(all) - k + 1, Len(all))
               ELSE /\ AllTokens(Surviving) = SubSeq(all, 1, k)
                    /\ AllRoles(Surviving) = SubSeq(roles, 1, k)

\* C5 witness: a left truncation that cuts inside a message, keeping its
\* last tokens only, and leaves at least two messages
C5_Witness ==
    /\ pc = "returned"
    /\ tokenizer.truncation_side = "left"
    /\ TotalTokens(ret.tokenized) > max_length
    /\ Len(Surviving) >= 2
    /\ \E i \in 1..Len(ret.tokenized) :
          /\ Len(ret.tokenized[i].tokens) > Len(Surviving[1].tokens)
          /\ Surviving[1].tokens =
                SubSeq(ret.tokenized[i].tokens,
                       Len(ret.tokenized[i].tokens) - Len(Surviving[1].tokens) + 1,
                       Len(ret.tokenized[i].tokens))

\* C6: running truncation, empty-message removal and boundary repair again on
\* the returned messages, at the same max_length, returns the same list.
C6_Idempotent ==
    pc = "rerun" => again.err = "none" /\ again.out = ret.out

\* C8 as stated: ["hello", "world"] at max_length 10 returns the bos message,
\* then (5, 6) as a prompt, then (7, 8, 9) as an output.
C8_Original ==
    pc = "returned" /\ dialogue = HelloWorld /\ max_length = 10
        => ret.out = <<DialogMessage(FALSE, <<0>>), DialogMessage(FALSE, <<5, 6>>),
                       DialogMessage(TRUE, <<7, 8, 9>>)>>

\* C8, amended: ["hello", "world"] at max_length 10 returns (5, 6) as a prompt
\* and (7, 8, 9) as an output, the eos id appended, nothing truncated and no
\* bos message prepended, the first message being a prompt already.
C8_HelloWorld ==
    pc # "init" /\ dialogue = HelloWorld /\ max_length = 10
        => /\ ret.err = "none"
           /\ ret.out = <<DialogMessage(FALSE, <<5, 6>>), DialogMessage(TRUE, <<7, 8, 9>>)>>

\* C8 witness: the call on ["hello", "world"] has returned
C8_Witness ==
    pc = "returned" /\ dialogue = HelloWorld /\ max_length = 10 /\ Len(ret.out) = 2

\* C10: every message tokenize_dialogue returns has at least one token, for
\* every truncation side and max_length >= 1.
C10_NoEmptyMessage ==
    pc = "returned" /\ max_length >= 1 => NoEmptyMessage(ret.out)

\* ------------------------------------------- under SpecMiddle (middle_truncate)
Prompt == frame.arg[1].tokens

Result == frame.tokenized[1].tokens

OutputNum == IF Len(frame.arg) = 2 THEN Len(frame.arg[2].tokens) ELSE 0

Scan == MarkerScan(Prompt, frame.start_char_token_id, frame.end_char_token_id)

\* the first n tokens of the result are the first n of the prompt
PrefixKept(n) == Len(Result) >= n /\ SubSeq(Result, 1, n) = SubSeq(Prompt, 1, n)

\* the last n tokens of the result are the last n of the prompt
SuffixKept(n) ==
    /\ Len(Result) >= n
    /\ SubSeq(Result, Len(Result) - n + 1, Len(Result))
          = SubSeq(Prompt, Len(Prompt) - n + 1, Len(Prompt))

\* C3 as stated: after a call that returns, the prompt is no longer than it
\* was, the tokens up to and including the first start marker are unchanged
\* and the tokens from the first end marker on are unchanged.
C3_Original ==
    pc = "mt_done"
        => /\ Len(Result) <= Len(Prompt)
           /\ Scan.start # -1 => PrefixKept(Scan.start + 1)
           /\ Scan.end # -1 => SuffixKept(Len(Prompt) - Scan.end)

\* C3, amended: the prompt is no longer than it was; when both markers occur
\* in it, the tokens up to and including the first start marker and the
\* tokens from the first end marker on are unchanged; when a marker is
\* missing, the first and the last token are unchanged.
C3_PrefixSuffixKept ==
    pc = "mt_done"
        => /\ Len(Result) <= Len(Prompt)
           /\ Scan.start # -1 /\ Scan.end # -1
                 => PrefixKept(Scan.start + 1) /\ SuffixKept(Len(Prompt) - Scan.end)
           /\ (Scan.start = -1 \/ Scan.end = -1) /\ Len(Prompt) >= 1
                 => PrefixKept(1) /\ SuffixKept(1)
           /\ IsPromptMessage(frame.tokenized[1])
                 => Len(frame.tokenized[1].mask) = Len(Result)

\* C3 witness: both markers present, the start marker not the first token,
\* and the middle between them was trimmed
C3_Witness ==
    /\ pc = "mt_done"
    /\ Scan.start >= 1
    /\ Scan.end > Scan.start
    /\ Len(Result) < Len(Prompt)

\* C7 as stated: a prompt of 100 tokens spanned by the markers, an output of
\* 50 tokens and max_length 100 must raise the shorten error.
C7_Original ==
    pc \in {"mt_done", "mt_raised"} /\ frame.arg \in SpanningInputs /\ frame.max_length = 100
        => pc = "mt_raised" /\ frame.err = ShortenError

\* C7, amended: in that scenario the middle budget is 100 - 50 - (100 - 98) =
\* 48, not negative, and the call returns the prompt trimmed to at most 50
\* tokens with both markers in place; the shorten error is raised exactly
\* when the prompt and output exceed max_length and the budget
\* max_length - output - (prompt - middle) is negative.
C7_SpanningPromptIsTrimmed ==
    pc \in {"mt_done", "mt_raised"}
        => /\ frame.arg \in SpanningInputs /\ frame.max_length = 100
                 => /\ pc = "mt_done"
                    /\ frame.middle_max_len = 48
                    /\ Len(Result) <= 50
                    /\ Result[1] = frame.start_char_token_id
                    /\ Result[Len(Result)] = frame.end_char_token_id
           /\ (pc = "mt_raised" /\ frame.err = ShortenError)
                 <=> /\ Len(Prompt) + OutputNum > frame.max_length
                     /\ frame.max_length - OutputNum
                           - (Len(Prompt) - Len(MiddlePart(Prompt, frame.idx))) < 0

\* C7 witness: the call on the spanning prompt has returned a shorter prompt
C7_Witness ==
    /\ pc = "mt_done"
    /\ frame.arg \in SpanningInputs
    /\ frame.max_length = 100
    /\ Len(Result) < 100

\* C9: with a non-negative middle budget the trimming loop terminates: an
\* iteration either drops everything up to and including the first separator
\* of the middle segment, which shortens it, or, with no separator, empties it
\* and is the last one; the loop is never stuck; and once it is left the
\* middle is within the budget and prompt plus output within max_length.
C9_LoopTerminates ==
    /\ [][pc = "mt_loop" /\ pc' = "mt_loop"
            => /\ frame.middle_max_len >= 0
               /\ Len(frame'.part.tokens) < Len(frame.part.tokens)
               /\ LET i == FirstIndex(frame.part.tokens, frame.sep_char_token_id)
                  IN  IF i # -1
                      THEN frame'.part.tokens
                              = SubSeq(frame.part.tokens, i + 2, Len(frame.part.tokens))
                      ELSE /\ frame'.part.tokens = <<>>
                           /\ ~LoopRuns(frame'.part, frame'.middle_max_len)]_vars
    /\ [](pc = "mt_loop" => ENABLED NextMiddle)
    /\ [](pc = "mt_done" /\ frame.idx.start # -1
            => /\ Len(frame.part.tokens) <= frame.middle_max_len
               /\ frame.iterations <= Len(Prompt)
               /\ Len(Result) + OutputNum <= frame.max_length)

\* C9 witness: the loop dropped two separator-ended stretches and left a
\* non-empty middle within the budget
C9_Witness ==
    /\ pc = "mt_done"
    /\ frame.iterations >= 2
    /\ Len(frame.part.tokens) > 0
    /\ ~frame.part.broke

\* ---------------------------------------------- under SpecStore (collation)
\* C4: in every collated batch, each position of labels added by padding
\* holds the ignore index -100.
C4_LabelsPaddedWithIgnore ==
    store.batch # Null
        => \A r \in 1..Len(store.elems) :
              \A c \in 1..Len(store.batch.labels[r]) :
                 LET n == Len(store.elems[r].labels)
                     w == Len(store.batch.labels[r])
                     padded == IF tokenizer.padding_side = "left" THEN c <= w - n
                               ELSE c > n
                 IN  padded => store.batch.labels[r][c] = IgnoreIndex

====
